---- MODULE Spec2Model ----
(***************************************************************************)
(* Model of Steuerung.py: two bipolar stepper motors behind L298N bridges, *)
(* the StepperMotor class (phase tables, step loop, degree bookkeeping,    *)
(* shortest-path positioning) and the keyboard command loop of __main__.   *)
(*                                                                         *)
(* Angles.  Python keeps current_position as an int while every argument   *)
(* is an int and as a binary64 float otherwise.  An angle is held here as  *)
(* an integer number of quanta: Deg quanta make one degree, and a single   *)
(* quantum stands for a float magnitude far below half an ulp of 1.0       *)
(* (1e-20, say).  Round gives the binary64 result of an exact value of     *)
(* that shape: next to a magnitude of a degree or more the quanta are      *)
(* rounded away, below one degree they are kept.                           *)
(***************************************************************************)
EXTENDS Integers, Sequences, FiniteSets, TLC

VARIABLES
    current_position,   \* [Motors -> angle]  StepperMotor.current_position
    pins,               \* [Motors -> <<IN1..IN4>>] level last written to each coil pin
    io,                 \* GPIO.output / _set_step / time.sleep calls made by the running call
    last,               \* the call that ran last, with the position it started from; in
                        \* __main__ the motion an interrupt cut short or the speed key
                        \* just handled (old: the delay before it)
    pc,                 \* __main__: the line the program is at
    cmd,                \* __main__: the key read by get_char().lower()
    delay,              \* __main__: delay, in milliseconds
    frame,              \* the locals of the step loop in progress (motor, i, steps, delay, ...)
    pending             \* __main__: the exception travelling through try/except/finally

vars == <<current_position, pins, io, last, pc, cmd, delay, frame, pending>>

(***************************************************************************)
(* Bounds of the model.                                                    *)
(***************************************************************************)
\* Largest number of quanta a sub-degree position may hold.
MaxTiny == 1

\* Quanta per degree; more than twice MaxTiny, so rounding is never a tie.
Deg == 2 * MaxTiny + 2

Abs(x) == IF x < 0 THEN -x ELSE x

(***************************************************************************)
(* Module constants.                                                       *)
(***************************************************************************)
Motors == {1, 2}

FULL_STEP == << <<1, 0, 1, 0>>, <<0, 1, 1, 0>>, <<0, 1, 0, 1>>, <<1, 0, 0, 1>> >>

HALF_STEP == << <<1, 0, 0, 0>>, <<1, 0, 1, 0>>, <<0, 0, 1, 0>>, <<0, 1, 1, 0>>,
                <<0, 1, 0, 0>>, <<0, 1, 0, 1>>, <<0, 0, 0, 1>>, <<1, 0, 0, 1>> >>

WAVE_STEP == << <<1, 0, 0, 0>>, <<0, 0, 1, 0>>, <<0, 1, 0, 0>>, <<0, 0, 0, 1>> >>

\* POSITIONS, id -> degrees.
POSITIONS == [id \in 0..4 |->
                 CASE id = 0 -> 0 [] id = 1 -> 45 [] id = 2 -> 90
                   [] id = 3 -> 180 [] id = 4 -> 270]

\* steps_per_rev as __main__ constructs both motors (also the default).
steps_per_rev == 200

AllLow == <<0, 0, 0, 0>>

\* The drive modes the class documents; any other string is not a mode.
Modes == {"full", "half", "wave"}

(***************************************************************************)
(* Python arithmetic on angles.                                            *)
(***************************************************************************)
\* binary64 rounding of an exact value n*Deg + k, |k| < Deg/2.
Round(v) ==
    IF Abs(v) < Deg THEN v ELSE ((v + Deg \div 2) \div Deg) * Deg

\* x % 360: the result takes the sign of the divisor; for a float the
\* correcting addition of 360 is itself rounded.
Mod360(x) == Round(x % (360 * Deg))

\* Whole-degree magnitudes up to 720 for which (d / 360.0) * 200 * m, an
\* integer mathematically, evaluates in binary64 to just below that integer.
InexactDegrees == {207, 369, 414, 459}

(***************************************************************************)
(* The machine the methods act on: st = [pos, pins, io].                   *)
(***************************************************************************)
NoIO == [set_step |-> 0, output |-> 0, sleep |-> 0]

\* StepperMotor.__init__ for both motors: position 0, every pin written low.
Constructed ==
    [pos  |-> [m \in Motors |-> 0],
     pins |-> [m \in Motors |-> AllLow],
     io   |-> NoIO]

\* _set_step: one GPIO.output per (pin, value) pair of zip(self.pins, step).
set_step(st, m, step) ==
    [st EXCEPT !.pins[m] = step,
               !.io.set_step = @ + 1,
               !.io.output = @ + Len(step)]

\* time.sleep(delay)
sleep(st) == [st EXCEPT !.io.sleep = @ + 1]

\* rotate / rotate_both: the table a mode string selects.
Sequence(mode) ==
    IF mode = "half" THEN HALF_STEP
    ELSE IF mode = "wave" THEN WAVE_STEP
    ELSE FULL_STEP

\* Mutant of StepIndex: the direction ignored, the table always read forwards.
StepIndex_forwards(i, seq_len, clockwise) == i % seq_len

\* rotate: the table index of loop pass i.
StepIndex(i, seq_len, clockwise) ==
    LET index == i % seq_len
    IN  IF ~clockwise THEN seq_len - 1 - index ELSE index

\* rotate: the vector written by pass i of the for loop.
PassVector(i, clockwise, mode) ==
    LET sequence == Sequence(mode)
        index    == StepIndex(i, Len(sequence), clockwise)
    IN  sequence[index + 1]

\* rotate: the body of the for loop, pass i.
RotateIter(st, m, i, clockwise, mode) ==
    sleep(set_step(st, m, PassVector(i, clockwise, mode)))

\* Mutant of rotate: for i in range(1, steps), the first pass lost.
rotate_from_one(st, m, steps, clockwise, mode) ==
    IF steps <= 1 THEN st
    ELSE LET final == RotateIter(st, m, steps - 1, clockwise, mode)
         IN  [final EXCEPT !.io.set_step = @ + (steps - 2),
                           !.io.output = @ + (steps - 2) * Len(final.pins[m]),
                           !.io.sleep = @ + (steps - 2)]

\* rotate: the whole loop, for i in range(steps).  Every pass overwrites the
\* four pins and sleeps once: after steps > 0 passes the pins hold the vector
\* of pass steps-1 and each count has grown by one per pass; range(steps) is
\* empty for steps <= 0.
rotate(st, m, steps, clockwise, mode) ==
    IF steps <= 0 THEN st
    ELSE LET final == RotateIter(st, m, steps - 1, clockwise, mode)
         IN  [final EXCEPT !.io.set_step = @ + (steps - 1),
                           !.io.output = @ + (steps - 1) * Len(final.pins[m]),
                           !.io.sleep = @ + (steps - 1)]

\* rotate_degrees: multiplier
Multiplier(mode) == IF mode = "half" THEN 2 ELSE 1

\* rotate_degrees: int((abs(degrees) / 360.0) * self.steps_per_rev * multiplier).
\* int() truncates; the float product falls short of its exact value for the
\* magnitudes of InexactDegrees.
StepCount(degrees, mode) ==
    LET exact == (Abs(degrees) * steps_per_rev * Multiplier(mode)) \div (360 * Deg)
    IN  IF Abs(degrees) < Deg THEN 0
        ELSE IF \E d \in InexactDegrees : Abs(degrees) = d * Deg THEN exact - 1
        ELSE exact

\* rotate_degrees: the position update after the steps.
NewPosition(position, degrees, clockwise) ==
    IF clockwise THEN Mod360(Round(position + degrees))
    ELSE Mod360(Round(position - degrees))

rotate_degrees(st, m, degrees, clockwise, mode) ==
    LET steps == StepCount(degrees, mode)
        moved == rotate(st, m, steps, clockwise, mode)
    IN  [moved EXCEPT !.pos[m] = NewPosition(@, degrees, clockwise)]

\* Mutant of PlanDiff: the normalisation left out.
PlanDiff_raw(current, target) == Round(target - current)

\* move_to_position: diff, normalised ("-180 bis +180").
PlanDiff(current, target) ==
    LET diff == Round(target - current)
    IN  IF diff > 180 * Deg THEN Round(diff - 360 * Deg)
        ELSE IF diff < -(180 * Deg) THEN Round(diff + 360 * Deg)
        ELSE diff

\* move_to_position: clockwise = diff >= 0
PlanClockwise(current, target) == PlanDiff(current, target) >= 0

\* move_to_position: degrees_to_move = abs(diff)
PlanDegrees(current, target) == Abs(PlanDiff(current, target))

\* degrees_to_move > 0.1: a sub-degree angle of the model is below 0.1.
WorthMoving(degrees_to_move) == degrees_to_move >= Deg

\* Mutant of move_to_position: the final "Praezise Position setzen" left out.
move_to_position_no_snap(st, m, position_num, mode) ==
    IF position_num \notin DOMAIN POSITIONS THEN st
    ELSE LET target_degrees  == POSITIONS[position_num] * Deg
             clockwise       == PlanClockwise(st.pos[m], target_degrees)
             degrees_to_move == PlanDegrees(st.pos[m], target_degrees)
         IN  IF WorthMoving(degrees_to_move)
             THEN rotate_degrees(st, m, degrees_to_move, clockwise, mode)
             ELSE st

\* Mutant of move_to_position: an unknown id taken as home,
\* POSITIONS.get(position_num, 0).
move_to_position_default_home(st, m, position_num, mode) ==
    LET target_degrees  == IF position_num \in DOMAIN POSITIONS
                           THEN POSITIONS[position_num] * Deg ELSE 0
        clockwise       == PlanClockwise(st.pos[m], target_degrees)
        degrees_to_move == PlanDegrees(st.pos[m], target_degrees)
        moved == IF WorthMoving(degrees_to_move)
                 THEN rotate_degrees(st, m, degrees_to_move, clockwise, mode)
                 ELSE st
    IN  [moved EXCEPT !.pos[m] = target_degrees]

move_to_position(st, m, position_num, mode) ==
    IF position_num \notin DOMAIN POSITIONS THEN st
    ELSE LET target_degrees  == POSITIONS[position_num] * Deg
             clockwise       == PlanClockwise(st.pos[m], target_degrees)
             degrees_to_move == PlanDegrees(st.pos[m], target_degrees)
             moved == IF WorthMoving(degrees_to_move)
                      THEN rotate_degrees(st, m, degrees_to_move, clockwise, mode)
                      ELSE st
         IN  [moved EXCEPT !.pos[m] = target_degrees]

move_to_home(st, m, mode) == move_to_position(st, m, 0, mode)

\* Mutant of stop: for pin in self.pins[:-1], the last pin left as it is.
stop_but_last_pin(st, m) ==
    [st EXCEPT !.pins[m] = [k \in 1..4 |-> IF k < 4 THEN 0 ELSE @[k]],
               !.io.output = @ + 3]

\* stop: every pin low, one GPIO.output per pin.
stop(st, m) ==
    [st EXCEPT !.pins[m] = AllLow, !.io.output = @ + Len(AllLow)]

hold(st, m) == set_step(st, m, FULL_STEP[1])

\* Mutant of reset_position: the coils released as well, self.stop() added.
reset_position_and_stop(st, m) ==
    [st EXCEPT !.pos[m] = 0, !.pins[m] = AllLow, !.io.output = @ + Len(AllLow)]

reset_position(st, m) == [st EXCEPT !.pos[m] = 0]

(***************************************************************************)
(* Calls on a StepperMotor object: the arguments a caller may pass.        *)
(***************************************************************************)
\* Largest step count passed to rotate directly.
MaxSteps == 9

StepArgs == {0, 1, 4, MaxSteps}

\* degrees: negative, zero, sub-degree floats, a step count that is not whole
\* (120), a full turn.
DegreeArgs == {d * Deg : d \in {-90, 0, 45, 120, 360}} \cup (1..MaxTiny)

ModeArgs == Modes \cup {"micro"}

PositionArgs == -1..5

\* The motors the calls are made on.
Subjects == {1}

Now == [pos |-> current_position, pins |-> pins, io |-> NoIO]

Apply(st) ==
    /\ current_position' = st.pos
    /\ pins' = st.pins
    /\ io' = st.io

Called(op, m, steps, degrees, clockwise, mode, position_num) ==
    last' = [op |-> op, m |-> m, steps |-> steps, degrees |-> degrees,
             clockwise |-> clockwise, mode |-> mode,
             position_num |-> position_num, target |-> 0,
             old |-> current_position[m]]

\* No step loop is running.  While one runs, the frame holds the locals
\* of rotate (i, steps, delay, clockwise, mode) and of the rotate_degrees and
\* move_to_position calls around it (degrees, target); m2_cw is the second
\* direction flag of rotate_both.
NoFrame ==
    [active |-> FALSE, m |-> 1, i |-> 0, steps |-> 0, clockwise |-> TRUE,
     degrees |-> 0, target |-> 0, mode |-> "full", delay |-> 0, m2_cw |-> TRUE]

NoCall ==
    [op |-> "__init__", m |-> 1, steps |-> 0, degrees |-> 0, clockwise |-> TRUE,
     mode |-> "full", position_num |-> 0, target |-> 0, old |-> 0]

Init ==
    /\ current_position = Constructed.pos
    /\ pins = Constructed.pins
    /\ io = NoIO
    /\ last = NoCall
    /\ pc = "L234"
    /\ cmd = ""
    /\ delay = 5
    /\ frame = NoFrame
    /\ pending = "none"

CallRotate(m, steps, clockwise, mode) ==
    /\ Apply(rotate(Now, m, steps, clockwise, mode))
    /\ Called("rotate", m, steps, 0, clockwise, mode, 0)
    /\ UNCHANGED <<pc, cmd, delay, frame, pending>>

\* A sub-degree position stays within MaxTiny quanta.
CallRotateDegrees(m, degrees, clockwise, mode) ==
    /\ LET new == NewPosition(current_position[m], degrees, clockwise)
       IN  new < Deg => new <= MaxTiny
    /\ Apply(rotate_degrees(Now, m, degrees, clockwise, mode))
    /\ Called("rotate_degrees", m, StepCount(degrees, mode), degrees, clockwise, mode, 0)
    /\ UNCHANGED <<pc, cmd, delay, frame, pending>>

CallMoveToPosition(m, position_num, mode) ==
    /\ Apply(move_to_position(Now, m, position_num, mode))
    /\ Called("move_to_position", m, 0, 0, TRUE, mode, position_num)
    /\ UNCHANGED <<pc, cmd, delay, frame, pending>>

CallMoveToHome(m, mode) ==
    /\ Apply(move_to_home(Now, m, mode))
    /\ Called("move_to_home", m, 0, 0, TRUE, mode, 0)
    /\ UNCHANGED <<pc, cmd, delay, frame, pending>>

CallStop(m) ==
    /\ Apply(stop(Now, m))
    /\ Called("stop", m, 0, 0, TRUE, "full", 0)
    /\ UNCHANGED <<pc, cmd, delay, frame, pending>>

CallHold(m) ==
    /\ Apply(hold(Now, m))
    /\ Called("hold", m, 0, 0, TRUE, "full", 0)
    /\ UNCHANGED <<pc, cmd, delay, frame, pending>>

CallResetPosition(m) ==
    /\ Apply(reset_position(Now, m))
    /\ Called("reset_position", m, 0, 0, TRUE, "full", 0)
    /\ UNCHANGED <<pc, cmd, delay, frame, pending>>

Next ==
    \E m \in Subjects :
        \/ \E steps \in StepArgs, clockwise \in BOOLEAN, mode \in ModeArgs :
               CallRotate(m, steps, clockwise, mode)
        \/ \E degrees \in DegreeArgs, clockwise \in BOOLEAN, mode \in ModeArgs :
               CallRotateDegrees(m, degrees, clockwise, mode)
        \/ \E position_num \in PositionArgs, mode \in ModeArgs :
               CallMoveToPosition(m, position_num, mode)
        \/ \E mode \in ModeArgs : CallMoveToHome(m, mode)
        \/ CallStop(m)
        \/ CallHold(m)
        \/ CallResetPosition(m)

Spec == Init /\ [][Next]_vars

(***************************************************************************)
(* rotate_degrees as a function of its arguments: one call on a newly      *)
(* constructed motor, for every whole number of degrees up to MaxDegrees   *)
(* either way and the sub-degree floats.                                   *)
(***************************************************************************)
MaxDegrees == 720

DegreesNext ==
    /\ last = NoCall
    /\ \E d \in -MaxDegrees..MaxDegrees, clockwise \in BOOLEAN, mode \in ModeArgs :
           CallRotateDegrees(1, d * Deg, clockwise, mode)

TinyDegreesNext ==
    /\ last = NoCall
    /\ \E degrees \in 1..MaxTiny, clockwise \in BOOLEAN, mode \in ModeArgs :
           CallRotateDegrees(1, degrees, clockwise, mode)

SpecDegrees == Init /\ [][DegreesNext \/ TinyDegreesNext]_vars

(***************************************************************************)
(* The shortest-path plan of move_to_position as a function of the current *)
(* position and the target angle: every position and every whole target    *)
(* in [0, 360).                                                            *)
(***************************************************************************)
\* The whole angles of [0, 360), in degrees.
Angles == 0..359

InitPlan ==
    /\ \E c \in {a * Deg : a \in Angles} \cup (1..MaxTiny) :
           current_position = [m \in Motors |-> IF m = 1 THEN c ELSE 0]
    /\ pins = Constructed.pins
    /\ io = NoIO
    /\ last = NoCall
    /\ pc = "L234"
    /\ cmd = ""
    /\ delay = 5
    /\ frame = NoFrame
    /\ pending = "none"

\* move_to_position, lines "Berechne kuerzesten Weg" to degrees_to_move, for
\* target_degrees = target.
PlanMove(m, target) ==
    /\ last = NoCall
    /\ last' = [NoCall EXCEPT
                  !.op = "plan", !.m = m, !.target = target,
                  !.old = current_position[m],
                  !.clockwise = PlanClockwise(current_position[m], target),
                  !.degrees = PlanDegrees(current_position[m], target)]
    /\ UNCHANGED <<current_position, pins, io, pc, cmd, delay, frame, pending>>

PlanNext == \E target \in Angles : PlanMove(1, target * Deg)

SpecPlan == InitPlan /\ [][PlanNext]_vars

(***************************************************************************)
(* __main__: the command loop inside try / except KeyboardInterrupt /      *)
(* finally.  pc names the source line the program is at.  A rotate loop is *)
(* run pass by pass, so that a KeyboardInterrupt can arrive between any    *)
(* two passes and part-way through a vector or a stop.                     *)
(***************************************************************************)
MIN_DELAY == 3

MAX_DELAY == 20

\* The keys get_char() may return; "" is end of input, "^C" is '\x03'.
Keys == {"0", "1", "2", "3", "4", "h", "H", "r", "s", "p", "+", "-", "q", "^C", "x", ""}

\* str.lower() on the keys above.
Lower(key) == IF key = "H" THEN "h" ELSE key

\* cmd in '01234': a substring test, true of the empty string too.
InDigits(c) == c \in {"", "0", "1", "2", "3", "4"}

\* int(cmd) for a digit.
IntOf(c) ==
    CASE c = "0" -> 0 [] c = "1" -> 1 [] c = "2" -> 2 [] c = "3" -> 3 [] c = "4" -> 4

\* Mutant of Statements: the two stop() calls after the return home (lines
\* 250-251) left out.
Statements_no_final_stop ==
    [L240 |-> [call |-> "move_to_position", m |-> 1, next |-> "L241"],
     L241 |-> [call |-> "move_to_position", m |-> 2, next |-> "L242"],
     L242 |-> [call |-> "stop",             m |-> 1, next |-> "L243"],
     L243 |-> [call |-> "stop",             m |-> 2, next |-> "L244"],
     L244 |-> [call |-> "sleep",            m |-> 1, next |-> "L248"],
     L248 |-> [call |-> "move_to_home",     m |-> 1, next |-> "L249"],
     L249 |-> [call |-> "move_to_home",     m |-> 2, next |-> "L234"],
     L250 |-> [call |-> "stop",             m |-> 1, next |-> "L251"],
     L251 |-> [call |-> "stop",             m |-> 2, next |-> "L234"],
     L256 |-> [call |-> "move_to_home",     m |-> 1, next |-> "L257"],
     L257 |-> [call |-> "move_to_home",     m |-> 2, next |-> "L258"],
     L258 |-> [call |-> "stop",             m |-> 1, next |-> "L259"],
     L259 |-> [call |-> "stop",             m |-> 2, next |-> "L234"],
     L264 |-> [call |-> "reset_position",   m |-> 1, next |-> "L265"],
     L265 |-> [call |-> "reset_position",   m |-> 2, next |-> "L234"],
     L269 |-> [call |-> "stop",             m |-> 1, next |-> "L270"],
     L270 |-> [call |-> "stop",             m |-> 2, next |-> "L234"],
     L294 |-> [call |-> "stop",             m |-> 1, next |-> "L295"],
     L295 |-> [call |-> "stop",             m |-> 2, next |-> "L296"]]

\* Mutant of Statements: the automatic return home (lines 248-249) left out.
Statements_no_return_home ==
    [L240 |-> [call |-> "move_to_position", m |-> 1, next |-> "L241"],
     L241 |-> [call |-> "move_to_position", m |-> 2, next |-> "L242"],
     L242 |-> [call |-> "stop",             m |-> 1, next |-> "L243"],
     L243 |-> [call |-> "stop",             m |-> 2, next |-> "L244"],
     L244 |-> [call |-> "sleep",            m |-> 1, next |-> "L250"],
     L248 |-> [call |-> "move_to_home",     m |-> 1, next |-> "L249"],
     L249 |-> [call |-> "move_to_home",     m |-> 2, next |-> "L250"],
     L250 |-> [call |-> "stop",             m |-> 1, next |-> "L251"],
     L251 |-> [call |-> "stop",             m |-> 2, next |-> "L234"],
     L256 |-> [call |-> "move_to_home",     m |-> 1, next |-> "L257"],
     L257 |-> [call |-> "move_to_home",     m |-> 2, next |-> "L258"],
     L258 |-> [call |-> "stop",             m |-> 1, next |-> "L259"],
     L259 |-> [call |-> "stop",             m |-> 2, next |-> "L234"],
     L264 |-> [call |-> "reset_position",   m |-> 1, next |-> "L265"],
     L265 |-> [call |-> "reset_position",   m |-> 2, next |-> "L234"],
     L269 |-> [call |-> "stop",             m |-> 1, next |-> "L270"],
     L270 |-> [call |-> "stop",             m |-> 2, next |-> "L234"],
     L294 |-> [call |-> "stop",             m |-> 1, next |-> "L295"],
     L295 |-> [call |-> "stop",             m |-> 2, next |-> "L296"]]

\* The statements of the command branches: what each line calls, on which
\* motor, and the line that follows it.
Statements ==
    [L240 |-> [call |-> "move_to_position", m |-> 1, next |-> "L241"],
     L241 |-> [call |-> "move_to_position", m |-> 2, next |-> "L242"],
     L242 |-> [call |-> "stop",             m |-> 1, next |-> "L243"],
     L243 |-> [call |-> "stop",             m |-> 2, next |-> "L244"],
     L244 |-> [call |-> "sleep",            m |-> 1, next |-> "L248"],
     L248 |-> [call |-> "move_to_home",     m |-> 1, next |-> "L249"],
     L249 |-> [call |-> "move_to_home",     m |-> 2, next |-> "L250"],
     L250 |-> [call |-> "stop",             m |-> 1, next |-> "L251"],
     L251 |-> [call |-> "stop",             m |-> 2, next |-> "L234"],
     L256 |-> [call |-> "move_to_home",     m |-> 1, next |-> "L257"],
     L257 |-> [call |-> "move_to_home",     m |-> 2, next |-> "L258"],
     L258 |-> [call |-> "stop",             m |-> 1, next |-> "L259"],
     L259 |-> [call |-> "stop",             m |-> 2, next |-> "L234"],
     L264 |-> [call |-> "reset_position",   m |-> 1, next |-> "L265"],
     L265 |-> [call |-> "reset_position",   m |-> 2, next |-> "L234"],
     L269 |-> [call |-> "stop",             m |-> 1, next |-> "L270"],
     L270 |-> [call |-> "stop",             m |-> 2, next |-> "L234"],
     L294 |-> [call |-> "stop",             m |-> 1, next |-> "L295"],
     L295 |-> [call |-> "stop",             m |-> 2, next |-> "L296"]]

\* The lines inside the try block.
TryLines == {"L234", "L237"} \cup (DOMAIN Statements \ {"L294", "L295"})

At(call) == pc \in DOMAIN Statements /\ Statements[pc].call = call

\* cmd = get_char().lower()
ReadKey ==
    /\ pc = "L234"
    /\ \E key \in Keys : cmd' = Lower(key)
    /\ pc' = "L237"
    /\ io' = NoIO
    /\ UNCHANGED <<current_position, pins, last, delay, frame, pending>>

\* Mutant of Faster: delay - 0.001 without the max().
Faster_unclamped(d) == d - 1

\* '+': max(0.003, delay - 0.001)
Faster(d) == IF d - 1 < MIN_DELAY THEN MIN_DELAY ELSE d - 1

\* '-': min(0.020, delay + 0.001)
Slower(d) == IF d + 1 > MAX_DELAY THEN MAX_DELAY ELSE d + 1

\* The if / elif chain on cmd, up to the first call of the branch taken.
\* int('') raises ValueError, which no except clause of the try catches.
\* After a speed command last holds the key and, as old, the delay before it.
Dispatch ==
    /\ pc = "L237"
    /\ pc' = CASE cmd = "" -> "L294"
               [] InDigits(cmd) /\ cmd # "" -> "L240"
               [] cmd = "h" -> "L256"
               [] cmd = "r" -> "L264"
               [] cmd = "s" -> "L269"
               [] cmd \in {"q", "^C"} -> "L294"
               [] OTHER -> "L234"
    /\ pending' = IF cmd = "" THEN "ValueError" ELSE pending
    /\ delay' = CASE cmd = "+" -> Faster(delay)
                  [] cmd = "-" -> Slower(delay)
                  [] OTHER -> delay
    /\ last' = IF cmd \in {"+", "-"}
               THEN [NoCall EXCEPT !.op = cmd, !.old = delay]
               ELSE NoCall
    /\ UNCHANGED <<current_position, pins, io, cmd, frame>>

\* move_to_position(pos, delay) / move_to_home(delay), up to the call of
\* rotate: the target is always a key of POSITIONS here.  Without a move the
\* call ends at once with the position set.
MoveBegin ==
    /\ At("move_to_position") \/ At("move_to_home")
    /\ ~frame.active
    /\ LET m == Statements[pc].m
           position_num == IF At("move_to_home") THEN 0 ELSE IntOf(cmd)
           target_degrees  == POSITIONS[position_num] * Deg
           clockwise       == PlanClockwise(current_position[m], target_degrees)
           degrees_to_move == PlanDegrees(current_position[m], target_degrees)
       IN  IF WorthMoving(degrees_to_move)
           THEN /\ frame' = [active |-> TRUE, m |-> m, i |-> 0,
                             steps |-> StepCount(degrees_to_move, "full"),
                             clockwise |-> clockwise, degrees |-> degrees_to_move,
                             target |-> target_degrees, mode |-> "full",
                             delay |-> delay, m2_cw |-> TRUE]
                /\ UNCHANGED <<current_position, pc>>
           ELSE /\ current_position' = [current_position EXCEPT ![m] = target_degrees]
                /\ pc' = Statements[pc].next
                /\ UNCHANGED frame
    /\ UNCHANGED <<pins, io, last, cmd, delay, pending>>

\* rotate: one pass of the for loop.
RotatePass ==
    /\ frame.active
    /\ frame.i < frame.steps
    /\ Apply(RotateIter([pos |-> current_position, pins |-> pins, io |-> io],
                        frame.m, frame.i, frame.clockwise, frame.mode))
    /\ frame' = [frame EXCEPT !.i = @ + 1]
    /\ UNCHANGED <<last, pc, cmd, delay, pending>>

\* The loop is over: rotate returns, rotate_degrees updates the position,
\* move_to_position sets it to the target and returns.
RotateReturn ==
    /\ frame.active
    /\ frame.i >= frame.steps
    /\ LET tracked == [current_position EXCEPT
                          ![frame.m] = NewPosition(@, frame.degrees, frame.clockwise)]
       IN  current_position' = [tracked EXCEPT ![frame.m] = frame.target]
    /\ frame' = NoFrame
    /\ pc' = Statements[pc].next
    /\ UNCHANGED <<pins, io, last, cmd, delay, pending>>

\* motorN.stop(), in the loop and in the finally block.
StopStatement ==
    /\ At("stop")
    /\ Apply(stop([pos |-> current_position, pins |-> pins, io |-> io], Statements[pc].m))
    /\ pc' = Statements[pc].next
    /\ UNCHANGED <<last, cmd, delay, frame, pending>>

\* time.sleep(1)
SleepStatement ==
    /\ At("sleep")
    /\ io' = sleep([pos |-> current_position, pins |-> pins, io |-> io]).io
    /\ pc' = Statements[pc].next
    /\ UNCHANGED <<current_position, pins, last, cmd, delay, frame, pending>>

\* motorN.reset_position()
ResetStatement ==
    /\ At("reset_position")
    /\ Apply(reset_position([pos |-> current_position, pins |-> pins, io |-> io],
                            Statements[pc].m))
    /\ pc' = Statements[pc].next
    /\ UNCHANGED <<last, cmd, delay, frame, pending>>

\* The pins of a motor when a vector is being written pin by pin and only the
\* first j writes were made.
PartlyWritten(before, vector, j) ==
    [k \in 1..Len(before) |-> IF k <= j THEN vector[k] ELSE before[k]]

\* KeyboardInterrupt raised at a line of the try block: between two
\* statements or passes (j = 0) or after j pin writes of the vector or stop
\* in progress.  The call stack unwinds to the except clause: rotate,
\* rotate_degrees and move_to_position are left without another statement
\* of theirs being run.  last keeps the motion that was cut short: the
\* passes completed (steps) and the position the motion started from (old).
KeyboardInterrupt ==
    /\ pc \in TryLines
    /\ pending = "none"
    /\ \E j \in 0..3 :
          IF frame.active /\ frame.i < frame.steps
          THEN pins' = [pins EXCEPT ![frame.m] =
                           PartlyWritten(@, PassVector(frame.i, frame.clockwise, frame.mode), j)]
          ELSE IF At("stop")
          THEN pins' = [pins EXCEPT ![Statements[pc].m] = PartlyWritten(@, AllLow, j)]
          ELSE j = 0 /\ pins' = pins
    /\ last' = IF frame.active
               THEN [NoCall EXCEPT
                       !.op = "interrupted", !.m = frame.m, !.steps = frame.i,
                       !.degrees = frame.degrees, !.clockwise = frame.clockwise,
                       !.mode = frame.mode, !.target = frame.target,
                       !.old = current_position[frame.m]]
               ELSE last
    /\ pending' = "KeyboardInterrupt"
    /\ frame' = NoFrame
    /\ pc' = "L291"
    /\ UNCHANGED <<current_position, io, cmd, delay>>

\* except KeyboardInterrupt: print, then on to the finally block.
ExceptClause ==
    /\ pc = "L291"
    /\ pending' = "none"
    /\ pc' = "L294"
    /\ UNCHANGED <<current_position, pins, io, last, cmd, delay, frame>>

\* GPIO.cleanup() and the end of the program; an exception still pending is
\* raised again and ends the process.
Cleanup ==
    /\ pc = "L296"
    /\ pc' = "exited"
    /\ UNCHANGED <<current_position, pins, io, last, cmd, delay, frame, pending>>

MainNext ==
    \/ ReadKey
    \/ Dispatch
    \/ MoveBegin
    \/ RotatePass
    \/ RotateReturn
    \/ StopStatement
    \/ SleepStatement
    \/ ResetStatement
    \/ KeyboardInterrupt
    \/ ExceptClause
    \/ Cleanup

SpecMain == Init /\ [][MainNext]_vars

(***************************************************************************)
(* rotate and rotate_both run pass by pass: one call, on the two motors as *)
(* constructed, with an explicit delay argument.  pc names the line of     *)
(* rotate_both the call is at; frame.active says that StepperMotor.rotate  *)
(* is the loop running.                                                    *)
(***************************************************************************)
\* delay arguments, in milliseconds: below the 3 ms the docstring of rotate
\* asks for, that minimum, the default.
DelayArgs == {1, MIN_DELAY, 5}

InitSteps ==
    /\ current_position = Constructed.pos
    /\ pins = Constructed.pins
    /\ io = NoIO
    /\ last = NoCall
    /\ pc = "caller"
    /\ cmd = ""
    /\ delay = 5
    /\ frame = NoFrame
    /\ pending = "none"

\* motor.rotate(steps, delay, clockwise, mode): the mode chain and seq_len,
\* up to the head of the for loop.
RotateCall(m, steps, delay_arg, clockwise, mode) ==
    /\ pc = "caller"
    /\ last = NoCall
    /\ Called("rotate", m, steps, 0, clockwise, mode, 0)
    /\ frame' = [NoFrame EXCEPT !.active = TRUE, !.m = m, !.steps = steps,
                                !.clockwise = clockwise, !.mode = mode,
                                !.delay = delay_arg]
    /\ pc' = "L95"
    /\ UNCHANGED <<current_position, pins, io, cmd, delay, pending>>

\* rotate: range(steps) is used up, the call returns.
RotateEnd ==
    /\ pc = "L95"
    /\ frame.active
    /\ frame.i >= frame.steps
    /\ frame' = NoFrame
    /\ pc' = "returned"
    /\ UNCHANGED <<current_position, pins, io, last, cmd, delay, pending>>

\* rotate_both(m1, m2, steps, delay, m1_cw, m2_cw, mode): the mode chain and
\* seq_len, up to the head of the for loop.
BothCall(steps, delay_arg, m1_cw, m2_cw, mode) ==
    /\ pc = "caller"
    /\ last = NoCall
    /\ last' = [NoCall EXCEPT !.op = "rotate_both", !.steps = steps,
                              !.clockwise = m1_cw, !.mode = mode]
    /\ frame' = [NoFrame EXCEPT !.steps = steps, !.clockwise = m1_cw,
                                !.m2_cw = m2_cw, !.mode = mode,
                                !.delay = delay_arg]
    /\ pc' = "L185"
    /\ UNCHANGED <<current_position, pins, io, cmd, delay, pending>>

\* Mutant of BothIndices: idx2 taken from m1_cw, both motors in the
\* direction of the first.
BothIndices_first_direction(i, seq_len, m1_cw, m2_cw) ==
    LET idx == i % seq_len
    IN  <<IF m1_cw THEN idx ELSE seq_len - 1 - idx,
          IF m1_cw THEN idx ELSE seq_len - 1 - idx>>

\* rotate_both: <<idx1, idx2>> of tick i.
BothIndices(i, seq_len, m1_cw, m2_cw) ==
    LET idx == i % seq_len
    IN  <<IF m1_cw THEN idx ELSE seq_len - 1 - idx,
          IF m2_cw THEN idx ELSE seq_len - 1 - idx>>

\* rotate_both: the vector of motor m in tick i of the running call.
BothVector(m) ==
    LET sequence == Sequence(frame.mode)
        idx == BothIndices(frame.i, Len(sequence), frame.clockwise, frame.m2_cw)
    IN  sequence[idx[m] + 1]

\* for i in range(steps): the next tick, idx, idx1 and idx2.
BothTick ==
    /\ pc = "L185"
    /\ frame.i < frame.steps
    /\ pc' = "L189"
    /\ UNCHANGED <<current_position, pins, io, last, cmd, delay, frame, pending>>

\* m1._set_step(sequence[idx1])
BothSetStep1 ==
    /\ pc = "L189"
    /\ Apply(set_step([pos |-> current_position, pins |-> pins, io |-> io],
                      1, BothVector(1)))
    /\ pc' = "L190"
    /\ UNCHANGED <<last, cmd, delay, frame, pending>>

\* m2._set_step(sequence[idx2])
BothSetStep2 ==
    /\ pc = "L190"
    /\ Apply(set_step([pos |-> current_position, pins |-> pins, io |-> io],
                      2, BothVector(2)))
    /\ pc' = "L191"
    /\ UNCHANGED <<last, cmd, delay, frame, pending>>

\* time.sleep(delay), the one delay of the tick, and back to the loop head.
BothSleep ==
    /\ pc = "L191"
    /\ io' = sleep([pos |-> current_position, pins |-> pins, io |-> io]).io
    /\ frame' = [frame EXCEPT !.i = @ + 1]
    /\ pc' = "L185"
    /\ UNCHANGED <<current_position, pins, last, cmd, delay, pending>>

\* range(steps) is used up: rotate_both returns; it has no statement after
\* the loop.
BothReturn ==
    /\ pc = "L185"
    /\ frame.i >= frame.steps
    /\ frame' = NoFrame
    /\ pc' = "returned"
    /\ UNCHANGED <<current_position, pins, io, last, cmd, delay, pending>>

\* KeyboardInterrupt inside rotate_both, between two statements (j = 0) or
\* after j pin writes of the vector being written: rotate_both has no try,
\* the exception leaves it for the caller.
BothInterrupt ==
    /\ pc \in {"L185", "L189", "L190", "L191"}
    /\ \E j \in 0..3 :
          IF pc = "L189"
          THEN pins' = [pins EXCEPT ![1] = PartlyWritten(@, BothVector(1), j)]
          ELSE IF pc = "L190"
          THEN pins' = [pins EXCEPT ![2] = PartlyWritten(@, BothVector(2), j)]
          ELSE j = 0 /\ pins' = pins
    /\ pending' = "KeyboardInterrupt"
    /\ frame' = NoFrame
    /\ pc' = "raised"
    /\ UNCHANGED <<current_position, io, last, cmd, delay>>

\* The argument of time.sleep(delay) in the loop running: the delay
\* parameter as it was passed, neither rotate nor rotate_both assigns it.
Dwell == frame.delay

StepsNext ==
    \/ \E m \in Motors, steps \in StepArgs, delay_arg \in DelayArgs,
          clockwise \in BOOLEAN, mode \in ModeArgs :
           RotateCall(m, steps, delay_arg, clockwise, mode)
    \/ (pc = "L95" /\ RotatePass)
    \/ RotateEnd
    \/ \E steps \in StepArgs, delay_arg \in DelayArgs,
          m1_cw \in BOOLEAN, m2_cw \in BOOLEAN, mode \in ModeArgs :
           BothCall(steps, delay_arg, m1_cw, m2_cw, mode)
    \/ BothTick
    \/ BothSetStep1
    \/ BothSetStep2
    \/ BothSleep
    \/ BothReturn
    \/ BothInterrupt

SpecSteps == InitSteps /\ [][StepsNext]_vars

(***************************************************************************)
(* Claims about calls on one motor object (Spec).                          *)
(***************************************************************************)
Subject == last.m

\* C1: after any sequence of rotate_degrees, move_to_position, move_to_home and
\* reset_position calls, current_position is non-negative and strictly below
\* 360 degrees.
C1_PositionInRange ==
    \A m \in Motors : 0 <= current_position[m] /\ current_position[m] < 360 * Deg

\* C3: rotate(n, ...) makes exactly n phase-vector writes, each of one write
\* per coil pin and followed by one delay; with n = 0 it writes no pin, sleeps
\* not at all and leaves the position alone.
C3_RotateEmitsExactlySteps ==
    last.op = "rotate" =>
        /\ io.set_step = last.steps
        /\ io.output = 4 * last.steps
        /\ io.sleep = last.steps
        /\ last.steps = 0 => io = NoIO /\ current_position[Subject] = last.old

\* Four passes counter-clockwise in half-step mode end on HALF_STEP[4].
C3_Witness ==
    /\ last.op = "rotate"
    /\ last.steps = 4
    /\ ~last.clockwise
    /\ last.mode = "half"
    /\ io = [set_step |-> 4, output |-> 16, sleep |-> 4]
    /\ pins[Subject] = <<0, 1, 0, 0>>

\* C4: rotate(n, direction, mode) advances current_position by exactly
\* n / (steps_per_rev * multiplier(mode)) * 360 degrees in the given direction,
\* modulo 360.  (Stated without division: both sides times steps_per_rev *
\* multiplier.)
C4_RotateAdvancesPosition ==
    last.op = "rotate" =>
        LET perRev  == steps_per_rev * Multiplier(last.mode)
            turned  == last.steps * 360 * Deg
            tracked == perRev * (current_position[Subject] - last.old)
        IN  IF last.clockwise
            THEN (tracked - turned) % (perRev * 360 * Deg) = 0
            ELSE (tracked + turned) % (perRev * 360 * Deg) = 0

\* C6: rotate_degrees moves current_position by the magnitude |degrees| in the
\* direction of the flag, the direction in which the steps were emitted:
\* (old + |degrees|) mod 360 clockwise, (old - |degrees|) mod 360 otherwise.
C6_PositionFollowsMagnitude ==
    last.op = "rotate_degrees" =>
        current_position[Subject] =
            NewPosition(last.old, Abs(last.degrees), last.clockwise)

\* C8: after move_to_position with a valid id (move_to_home is id 0), from any
\* position and in any mode, current_position is exactly POSITIONS[id].
C8_MoveEndsAtTarget ==
    (last.op \in {"move_to_position", "move_to_home"}
        /\ last.position_num \in DOMAIN POSITIONS) =>
        current_position[Subject] = POSITIONS[last.position_num] * Deg

\* From 120 to 45 degrees: 75 degrees counter-clockwise, 41.67 steps, 41 made.
C8_Witness ==
    /\ last.op = "move_to_position"
    /\ last.position_num = 1
    /\ last.old = 120 * Deg
    /\ io.set_step = 41
    /\ current_position[Subject] = 45 * Deg

\* C9: move_to_position with an id that is no key of POSITIONS writes no pin,
\* sleeps not at all, leaves current_position unchanged and returns.
C9_UnknownPositionIsNoOp ==
    (last.op = "move_to_position" /\ last.position_num \notin DOMAIN POSITIONS) =>
        io = NoIO /\ current_position[Subject] = last.old

C9_Witness ==
    /\ last.op = "move_to_position"
    /\ last.position_num = 5
    /\ last.old = 90 * Deg
    /\ pins[Subject] # AllLow

\* C10: a rotate or rotate_degrees request whose mode is not full, half or wave
\* emits no phase vector.
C10_InvalidModeRejected ==
    (last.op \in {"rotate", "rotate_degrees"} /\ last.mode \notin Modes) =>
        io.set_step = 0

(***************************************************************************)
(* Claims about rotate_degrees and the plan as functions.                  *)
(***************************************************************************)
\* round(x) for x = |degrees| / 360 * steps_per_rev * multiplier; x is never
\* half-way between two integers (9 does not divide an odd multiple of 9/2).
RoundedSteps(degrees, mode) ==
    IF Abs(degrees) < Deg THEN 0
    ELSE (2 * Abs(degrees) * steps_per_rev * Multiplier(mode) + 360 * Deg)
             \div (2 * 360 * Deg)

\* C5: rotate_degrees emits exactly round(|degrees| / 360 * steps_per_rev *
\* multiplier(mode)) steps; 360 degrees emits 200 steps in full mode and 400
\* in half mode.
C5_StepsAreRounded ==
    last.op = "rotate_degrees" =>
        /\ io.set_step = RoundedSteps(last.degrees, last.mode)
        /\ (last.degrees = 360 * Deg /\ last.mode = "full") => io.set_step = 200
        /\ (last.degrees = 360 * Deg /\ last.mode = "half") => io.set_step = 400

\* C7: for every current position and every target in [0, 360) the planned
\* move is at most 180 degrees, and that magnitude applied to the current
\* position in the planned direction gives the target modulo 360; from 10 to
\* 350 it is 20 degrees counter-clockwise.
C7_PlanIsShortestPath ==
    last.op = "plan" =>
        /\ last.degrees <= 180 * Deg
        /\ Mod360(last.target) =
               IF last.clockwise THEN Mod360(Round(last.old + last.degrees))
               ELSE Mod360(Round(last.old - last.degrees))
        /\ (last.old = 10 * Deg /\ last.target = 350 * Deg) =>
               (~last.clockwise /\ last.degrees = 20 * Deg)

C7_Witness ==
    /\ last.op = "plan"
    /\ last.old = 10 * Deg
    /\ last.target = 350 * Deg
    /\ ~last.clockwise
    /\ last.degrees = 20 * Deg

(***************************************************************************)
(* Claims about the command loop (SpecMain).                               *)
(***************************************************************************)
\* C2: however the command loop ends (quit key, an exception raised by a
\* command, a KeyboardInterrupt anywhere in the loop, also in the middle of
\* a step sequence), all four pins of both motors are low when the process
\* exits.
C2_AllPinsLowAtExit ==
    pc = "exited" => \A m \in Motors : pins[m] = AllLow

\* Key 3, interrupted after 57 of the 100 steps of motor 1: the program has
\* ended, the move to 180 degrees never finished.
C2_Witness ==
    /\ pc = "exited"
    /\ cmd = "3"
    /\ io.set_step = 57
    /\ current_position[1] = 0
    /\ \A m \in Motors : pins[m] = AllLow

\* C8, the two-motor case: key 2 sends both motors from 0 to id 2; after the
\* stop of each, both are at 90 degrees and all eight pins are low.
C8_BothMotorsAtNinety ==
    (pc = "L244" /\ cmd = "2") =>
        /\ \A m \in Motors : current_position[m] = 90 * Deg
        /\ \A m \in Motors : pins[m] = AllLow

C8_BothMotorsWitness ==
    pc = "L244" /\ cmd = "2" /\ io.set_step = 100

\* C11: when a motion started by move_to_position (through rotate_degrees) is
\* interrupted after k of its n steps (0 <= k < n), current_position
\* afterwards reflects exactly the k steps made: it has moved from the
\* pre-motion value by k / (steps_per_rev * multiplier) * 360 degrees in the
\* direction of the motion (stated times steps_per_rev * multiplier), and for
\* k > 0 it is not the pre-motion value.
C11_PositionReflectsCompletedSteps ==
    (last.op = "interrupted" /\ last.steps < StepCount(last.degrees, last.mode)) =>
        LET perRev  == steps_per_rev * Multiplier(last.mode)
            turned  == last.steps * 360 * Deg
            tracked == perRev * (current_position[last.m] - last.old)
        IN  /\ IF last.clockwise
               THEN (tracked - turned) % (perRev * 360 * Deg) = 0
               ELSE (tracked + turned) % (perRev * 360 * Deg) = 0
            /\ last.steps > 0 => current_position[last.m] # last.old

(***************************************************************************)
(* Further claims about calls on one motor object (Spec).                  *)
(***************************************************************************)
\* C12: reset_position sets current_position to 0 from any prior position and
\* performs no pin write: every pin level of every motor is the same after
\* the call as before it.
C12_ResetWritesNoPin ==
    [][last'.op = "reset_position" =>
          /\ current_position'[last'.m] = 0
          /\ pins' = pins
          /\ io' = NoIO]_vars

\* Calibration at 90 degrees with the coils still energised.
C12_Witness ==
    /\ last.op = "reset_position"
    /\ last.old = 90 * Deg
    /\ current_position[Subject] = 0
    /\ pins[Subject] = <<0, 1, 1, 0>>

(***************************************************************************)
(* Claims about the step loops run pass by pass (SpecSteps).               *)
(***************************************************************************)
\* A table read backwards.
Mirror(seq) == [k \in 1..Len(seq) |-> seq[Len(seq) + 1 - k]]

\* The vector step i of a run is to emit: entry i mod len of the table,
\* of the mirrored table when the run is counter-clockwise.
ExpectedVector(mode, i, clockwise) ==
    LET seq == IF clockwise THEN Sequence(mode) ELSE Mirror(Sequence(mode))
    IN  seq[(i % Len(seq)) + 1]

\* C13: in rotate_both, for every tick N the vectors of both motors for step N
\* are written before the one shared delay of the tick and before any pin of
\* either motor is written for step N+1, each motor's vector coming from the
\* shared counter and the motor's own direction: at the head of tick N there
\* were N delays and 2N vector writes and both motors hold their vector of
\* step N-1; motor 1 is written first, motor 2 second, then the delay.
C13_LockstepOrder ==
    (last.op = "rotate_both" /\ pc \in {"L185", "L189", "L190", "L191"}) =>
        LET N == frame.i
            v1(k) == ExpectedVector(frame.mode, k, frame.clockwise)
            v2(k) == ExpectedVector(frame.mode, k, frame.m2_cw)
        IN  /\ io.sleep = N
            /\ pc \in {"L185", "L189"} =>
                   /\ io.set_step = 2 * N
                   /\ N > 0 => pins[1] = v1(N - 1) /\ pins[2] = v2(N - 1)
            /\ pc = "L190" =>
                   /\ io.set_step = 2 * N + 1
                   /\ pins[1] = v1(N)
                   /\ N > 0 => pins[2] = v2(N - 1)
            /\ pc = "L191" =>
                   /\ io.set_step = 2 * N + 2
                   /\ pins[1] = v1(N) /\ pins[2] = v2(N)

\* Tick 5 of a half-step run, motor 1 clockwise and motor 2 counter-clockwise:
\* motor 1 already holds HALF_STEP[5], motor 2 still its vector of step 4.
C13_Witness ==
    /\ last.op = "rotate_both"
    /\ pc = "L190"
    /\ frame.i = 5
    /\ frame.mode = "half" /\ frame.clockwise /\ ~frame.m2_cw
    /\ pins[1] = <<0, 1, 0, 1>>
    /\ pins[2] = <<0, 1, 1, 0>>
    /\ io = [set_step |-> 11, output |-> 44, sleep |-> 5]

\* C14: when rotate_both returns after steps > 0, or is interrupted part-way,
\* all pins of both motors passed to it are low.
C14_BothMotorsReleased ==
    (last.op = "rotate_both" /\ last.steps > 0 /\ pc \in {"returned", "raised"}) =>
        \A m \in Motors : pins[m] = AllLow

\* C15: the dwell applied after each step is never below the minimum of
\* 0.003 s: once a step loop has slept, the delay it sleeps for is at least
\* the minimum, whatever delay argument was passed.
C15_DwellAtLeastMinimum ==
    (pc \in {"L95", "L185", "L189", "L190", "L191"} /\ io.sleep > 0) =>
        Dwell >= MIN_DELAY

\* The place of a vector in a table, counted from 0 (no table holds a vector
\* twice).
IndexOf(vector, seq) == CHOOSE k \in 0..(Len(seq) - 1) : seq[k + 1] = vector

\* C17: in rotate and rotate_both the table index used for step i is within
\* 0..len-1: it is i mod len when clockwise and len-1-(i mod len) otherwise,
\* so a counter-clockwise run emits the vectors a clockwise run would emit
\* from the mirrored table, and consecutive steps of one run use cyclically
\* adjacent entries.  Stated of every vector write of a run: the vector
\* written is an entry of the table, at that index, and one place on (one
\* place back, counter-clockwise) from the entry the motor held.
C17_IndexWithinTable ==
    [][io'.set_step = io.set_step + 1 =>
          LET m   == IF pc = "L190" THEN 2 ELSE frame.m
              cw  == IF pc = "L190" THEN frame.m2_cw ELSE frame.clockwise
              seq == Sequence(frame.mode)
              len == Len(seq)
              i   == frame.i
          IN  /\ \E k \in 0..(len - 1) : seq[k + 1] = pins'[m]
              /\ IndexOf(pins'[m], seq) =
                     IF cw THEN i % len ELSE len - 1 - (i % len)
              /\ pins'[m] = ExpectedVector(frame.mode, i, cw)
              /\ i > 0 =>
                     IndexOf(pins'[m], seq) =
                         (IndexOf(pins[m], seq) + (IF cw THEN 1 ELSE len - 1)) % len]_vars

\* Nine passes of rotate counter-clockwise in half-step mode: the ninth pass
\* (i = 8) wraps round to index 7 again.
C17_Witness ==
    /\ last.op = "rotate"
    /\ last.mode = "half"
    /\ ~last.clockwise
    /\ frame.active
    /\ frame.i = 9
    /\ pins[last.m] = HALF_STEP[8]

(***************************************************************************)
(* The plan of move_to_position on reachable positions (Spec).             *)
(***************************************************************************)
\* C16: the signed difference move_to_position uses to choose direction and
\* magnitude lies in (-180, 180] for every reachable current_position and
\* every named target, so a move of exactly half a turn is planned, and
\* stepped, clockwise: its last pass leaves the clockwise vector on the pins.
\* Stated of the moves that start within [0, 360), where the position is
\* meant to be.
C16_DiffInHalfOpenInterval ==
    (last.op \in {"move_to_position", "move_to_home"}
        /\ last.position_num \in DOMAIN POSITIONS
        /\ 0 <= last.old /\ last.old < 360 * Deg) =>
        LET target == POSITIONS[last.position_num] * Deg
            diff   == PlanDiff(last.old, target)
        IN  /\ -(180 * Deg) < diff
            /\ diff <= 180 * Deg
            /\ Abs(diff) = 180 * Deg =>
                   /\ PlanClockwise(last.old, target)
                   /\ pins[Subject] =
                          ExpectedVector(last.mode,
                                         StepCount(180 * Deg, last.mode) - 1, TRUE)

(***************************************************************************)
(* Further claims about the command loop (SpecMain).                       *)
(***************************************************************************)
\* C18: whenever the command loop is waiting for the next key, after any
\* sequence of completed commands, all eight coil pins of both motors are low.
C18_PinsLowWhileWaiting ==
    pc = "L234" => \A m \in Motors : pins[m] = AllLow

\* Key 3 has run: 100 steps out and 100 steps back on each motor.
C18_Witness ==
    /\ pc = "L234"
    /\ cmd = "3"
    /\ io.set_step = 400
    /\ \A m \in Motors : pins[m] = AllLow

\* C19: whenever the command loop is waiting for the next key, after any
\* sequence of completed commands, current_position of both motors is 0:
\* a position command 0-4 has both motors at the target when it pauses
\* (line 244) and back home before the next key is read; the position query
\* 'p' never sees another value than 0.
C19_HomeWhileWaiting ==
    /\ pc = "L234" => \A m \in Motors : current_position[m] = 0
    /\ pc = "L244" => \A m \in Motors : current_position[m] = POSITIONS[IntOf(cmd)] * Deg
    /\ (pc = "L237" /\ cmd = "p") => \A m \in Motors : current_position[m] = 0

\* Key 4 has run: 50 steps counter-clockwise to 270 degrees and 50 steps
\* clockwise back home on each motor.
C19_Witness ==
    /\ pc = "L234"
    /\ cmd = "4"
    /\ io.set_step = 200
    /\ io.sleep = 201
    /\ \A m \in Motors : current_position[m] = 0

\* C20: after any sequence of '+' and '-' commands the delay, and with it the
\* delay passed to every motion, lies between 0.003 s and 0.020 s inclusive;
\* '+' at the lower bound and '-' at the upper bound leave it unchanged.
C20_DelayWithinBounds ==
    /\ MIN_DELAY <= delay /\ delay <= MAX_DELAY
    /\ frame.active => (MIN_DELAY <= Dwell /\ Dwell <= MAX_DELAY)
    /\ (last.op = "+" /\ last.old = MIN_DELAY) => delay = MIN_DELAY
    /\ (last.op = "-" /\ last.old = MAX_DELAY) => delay = MAX_DELAY

\* '+' pressed with the delay at the lower bound already.
C20_Witness ==
    /\ pc = "L234"
    /\ cmd = "+"
    /\ last.op = "+"
    /\ last.old = MIN_DELAY
    /\ delay = MIN_DELAY

====
